---- MODULE Spec2Model ----
(***************************************************************************)
(* Model of service.py: a Flask service with five GET routes that call     *)
(* three upstream providers (alphavantage, stocknewsapi, OpenAI) and       *)
(* scrape article pages.  Each in-flight HTTP request is a handler thread  *)
(* (Flask serves requests on threads); the only state shared between       *)
(* handlers is the module-level dict summarize_dict.                       *)
(***************************************************************************)
EXTENDS Integers, Sequences, FiniteSets, TLC

VARIABLES
    pc,             \* handler position: "idle", "listing" (inside the while loop of get_news_from_stocknews), "done" (response sent)
    req,            \* request.args of the request being handled, plus the route
    items,          \* the items argument of get_news_from_stocknews
    page,           \* local variable page of get_news_from_stocknews
    news,           \* local list news of get_news_from_stocknews (Article objects)
    news_count,     \* local variable news_count of get_news_from_stocknews
    requested,      \* the page requests this handler sent to stocknewsapi, in order, each with the status answered
    dropped,        \* why entries of the pages were skipped so far: "denylist", "scrape"
    llm,            \* outcome of each chat.completions.create call of this request, in task order
    exc,            \* the call of this request that raised an exception, None when none did
    resp,           \* the response sent: status and JSON body
    hit,            \* whether this request was answered from summarize_dict
    alone,          \* whether no other handler was inside a request when this one answered
    prev,           \* the response of the call before this one: the other handler's, when it answered alone, for the same route and ticker, before this request arrived
    summarize_dict, \* the module-level cache of /news/summarized
    writer          \* per ticker, the handler that assigned summarize_dict[ticker] last

vars == <<pc, req, items, page, news, news_count, requested, dropped, llm, exc, resp, hit, alone, prev, summarize_dict, writer>>

\* Python's None.
None == "None"

\* Handler threads.
Reqs == {"r1", "r2"}

\* ---------------------------------------------------------------- bounds

\* Pages a single get_news_from_stocknews call is followed for.
MaxPage == 3

\* Half-width of the window of scores explored around each label threshold.
ScoreDelta == 1

\* Candidate matches in a SYMBOL_SEARCH answer.
MaxMatches == 2

\* ---------------------------------------------------------------- program constants

\* items: int = 3, the default of get_news_from_stocknews and the page size asked.
DefaultItems == 3

\* ---------------------------------------------------------------- inputs

Tickers == {"AMZN", "MSFT"}

YoutubeUrl == "https://www.youtube.com/watch?v=1"
NewsUrl == "https://news.example.com/a"
Urls == {YoutubeUrl, NewsUrl}

\* One element of response.json()["data"].
Entry(u) == [news_url |-> u, title |-> "Title", text |-> "Teaser"]

\* What requests.get(url) of an article gives: None stands for a
\* RequestException (network error or raise_for_status), the rest are bodies.
Htmls == {None, "<script>x</script>", "<p>Shares rose</p>"}

\* What the chat completion gives for one article: "raise" stands for an
\* exception of the client, the rest are message contents.
LlmOutcomes == {"raise", "", "Summary"}

\* The entries of a provider page, each with what a fetch of its url gives
\* (the video page has text; the code never fetches it).
PageItems ==
    {<<Entry(YoutubeUrl), "<p>Shares rose</p>">>} \cup {<<Entry(NewsUrl), h>> : h \in Htmls}

\* ---------------------------------------------------------------- helpers

\* Python truthiness of str | None.
Truthy(x) == x # None /\ x # ""

\* sub in s, for strings.
Contains(s, sub) ==
    \E i \in 1..(Len(s) - Len(sub) + 1) : SubSeq(s, i, i + Len(sub) - 1) = sub

\* extract_text_from_html on the bodies of Htmls: script elements are
\* decomposed, the remaining text is stripped and blank lines are dropped.
extract_text_from_html(html) ==
    CASE html = "<script>x</script>" -> ""
      [] html = "<p>Shares rose</p>" -> "Shares rose"
      [] OTHER -> ""

\* get_text_content with get_html_from_article's result html.
get_text_content(html) ==
    IF ~Truthy(html) THEN None ELSE extract_text_from_html(html)

\* Article.__init__: the scrape happens at construction.
Article(entry, html) ==
    [url |-> entry.news_url, title |-> entry.title, short_content |-> entry.text,
     long_content |-> get_text_content(html), long_content_summary |-> None]

\* Denylisted with the url compared to the marker instead of searched for it.
DenylistedByEquality(url) == url = "youtube"

\* The denylist test of get_news_page_from_stocknews.
Denylisted(url) == Contains(url, "youtube")

\* PageArticles without the test of long_content.
RECURSIVE PageArticlesUnscraped(_)
PageArticlesUnscraped(data) ==
    IF data = <<>> THEN <<>>
    ELSE IF Denylisted(Head(data)[1].news_url) THEN PageArticlesUnscraped(Tail(data))
    ELSE <<Article(Head(data)[1], Head(data)[2])>> \o PageArticlesUnscraped(Tail(data))

\* The for loop of get_news_page_from_stocknews over data, a sequence of
\* <<entry, html>> pairs (html is what the scrape of that entry fetches).
RECURSIVE PageArticles(_)
PageArticles(data) ==
    IF data = <<>> THEN <<>>
    ELSE LET entry == Head(data)[1]
             article == Article(entry, Head(data)[2])
         IN IF Denylisted(entry.news_url) THEN PageArticles(Tail(data))
            ELSE IF ~Truthy(article.long_content) THEN PageArticles(Tail(data))
            ELSE <<article>> \o PageArticles(Tail(data))

\* The two continue statements of that loop taken over data.
Skips(data) ==
    {"denylist" : i \in {i \in 1..Len(data) : Denylisted(data[i][1].news_url)}}
    \cup {"scrape" : i \in {i \in 1..Len(data) :
                                /\ ~Denylisted(data[i][1].news_url)
                                /\ ~Truthy(get_text_content(data[i][2]))}}

\* get_news_page_from_stocknews answering an empty page instead of raising.
get_news_page_soft(status_code, data) ==
    IF status_code = 200
    THEN [raised |-> FALSE, articles |-> PageArticles(data)]
    ELSE [raised |-> FALSE, articles |-> <<>>]

\* get_news_page_from_stocknews: the articles of the page, or the exception.
get_news_page_from_stocknews(status_code, data) ==
    IF status_code = 200
    THEN [raised |-> FALSE, articles |-> PageArticles(data)]
    ELSE [raised |-> TRUE, articles |-> <<>>]

\* The while condition stopping one article early.
MoreNeededOffByOne(count, wanted) == count < wanted - 1

\* The while condition of get_news_from_stocknews.
MoreNeeded(count, wanted) == count < wanted

\* news_count += len(news_batch)
CountAfter(count, batch) == count + Len(batch)

\* ---------------------------------------------------------------- int(count)

Digits == <<"0", "1", "2", "3", "4", "5", "6", "7", "8", "9">>

IsDigit(c) == \E d \in 1..Len(Digits) : Digits[d] = c

DigitVal(c) == (CHOOSE d \in 1..Len(Digits) : Digits[d] = c) - 1

RECURSIVE DigitsVal(_, _)
DigitsVal(s, acc) ==
    IF s = "" THEN acc
    ELSE DigitsVal(SubSeq(s, 2, Len(s)), acc * 10 + DigitVal(SubSeq(s, 1, 1)))

AllDigits(s) == s # "" /\ \A i \in 1..Len(s) : IsDigit(SubSeq(s, i, i))

\* Python's int(str): an optional sign and decimal digits, ValueError otherwise.
int(s) ==
    LET signed == s # "" /\ SubSeq(s, 1, 1) \in {"-", "+"}
        body == IF signed THEN SubSeq(s, 2, Len(s)) ELSE s
    IN IF ~AllDigits(body) THEN [raised |-> TRUE, val |-> 0]
       ELSE [raised |-> FALSE,
             val |-> IF signed /\ SubSeq(s, 1, 1) = "-"
                     THEN 0 - DigitsVal(body, 0) ELSE DigitsVal(body, 0)]

\* ---------------------------------------------------------------- asyncio.run(summarize_news(news))

\* Article.summarize_long_content with the provider's outcome out.
summarize_long_content(article, out) ==
    IF out = "raise" THEN [raised |-> TRUE, article |-> article]
    ELSE [raised |-> FALSE,
          article |-> IF Truthy(out) /\ Len(out) > 0
                      THEN [article EXCEPT !.long_content_summary = out]
                      ELSE article]

\* The event loop's ready queue holds callbacks, run first in first out
\* (loop.call_soon): a task's first step, a finished task's done callback
\* (gather's _done_callback), and the wakeup of the coroutine awaiting gather.
StepCb(i) == [kind |-> "step", i |-> i]
DoneCb(i) == [kind |-> "done", i |-> i]
WakeupCb == [kind |-> "wakeup", i |-> 0]

\* gather(*tasks): every coroutine is wrapped in a task whose first step is
\* scheduled, in argument order; with no arguments the future is born done.
Gather(articles, outs) ==
    [ready |-> [i \in 1..Len(articles) |-> StepCb(i)],
     articles |-> articles,
     outs |-> outs,
     failed |-> {},
     started |-> {},
     nfinished |-> 0,
     outer_done |-> Len(articles) = 0,
     outer_raised |-> FALSE,
     resumed |-> Len(articles) = 0]

\* One callback of the ready queue.
RunCallback(s) ==
    LET cb == Head(s.ready)
        rest == Tail(s.ready)
    IN CASE cb.kind = "step" ->
              \* summarize_long_content has no await: the task runs to its end
              \* in this step, then its done callbacks are scheduled.
              LET r == summarize_long_content(s.articles[cb.i], s.outs[cb.i])
              IN [s EXCEPT !.ready = Append(rest, DoneCb(cb.i)),
                           !.articles[cb.i] = r.article,
                           !.started = @ \cup {cb.i},
                           !.failed = IF r.raised THEN @ \cup {cb.i} ELSE @]
         [] cb.kind = "done" ->
              IF s.outer_done THEN [s EXCEPT !.ready = rest]
              ELSE IF cb.i \in s.failed
              THEN [s EXCEPT !.ready = Append(rest, WakeupCb),
                             !.outer_done = TRUE, !.outer_raised = TRUE]
              ELSE IF s.nfinished + 1 = Len(s.articles)
              THEN [s EXCEPT !.ready = Append(rest, WakeupCb),
                             !.nfinished = @ + 1, !.outer_done = TRUE]
              ELSE [s EXCEPT !.ready = rest, !.nfinished = @ + 1]
         [] OTHER ->
              \* the awaiting coroutine resumes; asyncio.run then cancels the
              \* tasks still pending and closes the loop.
              [s EXCEPT !.ready = <<>>, !.resumed = TRUE]

RECURSIVE RunLoop(_)
RunLoop(s) == IF s.resumed \/ s.ready = <<>> THEN s ELSE RunLoop(RunCallback(s))

\* summarize_news awaiting the coroutines one after the other
\* (for article in articles: await article.summarize_long_content()).
RECURSIVE AwaitEach(_, _, _)
AwaitEach(articles, outs, i) ==
    IF i > Len(articles) THEN [raised |-> FALSE, articles |-> articles, called |-> 1..Len(articles)]
    ELSE LET r == summarize_long_content(articles[i], outs[i])
         IN IF r.raised THEN [raised |-> TRUE, articles |-> articles, called |-> 1..i]
            ELSE AwaitEach([articles EXCEPT ![i] = r.article], outs, i + 1)

summarize_news_sequential(articles, outs) == AwaitEach(articles, outs, 1)

\* asyncio.run(summarize_news(articles)) where outs[i] is the provider's
\* outcome for articles[i]: the articles afterwards, whether the call raised,
\* and the provider calls made.
summarize_news(articles, outs) ==
    LET s == RunLoop(Gather(articles, outs))
    IN [raised |-> s.outer_raised, articles |-> s.articles, called |-> s.started]

\* ---------------------------------------------------------------- get_sentiment, get_ticker_symbol

\* The thresholds of get_sentiment, in ten-thousandths (final_score is
\* rounded to 4 decimal digits).
BearishMax == -3500
SomewhatBearishMax == -1500
NeutralSup == 1500
SomewhatBullishSup == 3500

Thresholds == {BearishMax, SomewhatBearishMax, 0, NeutralSup, SomewhatBullishSup}

\* The chain with strict comparisons throughout.
LabelStrict(final_score) ==
    IF final_score < BearishMax THEN "Bearish"
    ELSE IF final_score < SomewhatBearishMax THEN "Somewhat-Bearish"
    ELSE IF final_score < NeutralSup THEN "Neutral"
    ELSE IF final_score < SomewhatBullishSup THEN "Somewhat-Bullish"
    ELSE "Bullish"

\* The if/elif chain of get_sentiment on final_score (ten-thousandths).
Label(final_score) ==
    IF final_score <= BearishMax THEN "Bearish"
    ELSE IF final_score <= SomewhatBearishMax THEN "Somewhat-Bearish"
    ELSE IF final_score < NeutralSup THEN "Neutral"
    ELSE IF final_score < SomewhatBullishSup THEN "Somewhat-Bullish"
    ELSE "Bullish"

\* get_sentiment's result when it returns None.
NoSentiment == [none |-> TRUE]

\* get_sentiment: feed is "raise" when the request or the parsing raises,
\* else the rounded aggregate of the feed in ten-thousandths.
get_sentiment(feed) ==
    IF feed = [raise |-> TRUE] THEN NoSentiment
    ELSE [score |-> feed.score, label |-> Label(feed.score)]

\* The for loop of get_ticker_symbol over data['bestMatches'].
RECURSIVE FirstUS(_)
FirstUS(matches) ==
    IF matches = <<>> THEN None
    ELSE IF Head(matches).region # "United States" THEN FirstUS(Tail(matches))
    ELSE Head(matches).symbol

\* get_ticker_symbol: search is [raise |-> TRUE] or [matches |-> ...].
get_ticker_symbol(search) ==
    IF search = [raise |-> TRUE] THEN None ELSE FirstUS(search.matches)

\* ---------------------------------------------------------------- responses

\* jsonify(body), status.
Response(status, body) == [status |-> status, body |-> body]

NoResponse == Response(0, [nothing |-> TRUE])

\* The response list of get_news_route.
RECURSIVE NewsBody(_)
NewsBody(articles) ==
    IF articles = <<>> THEN <<>>
    ELSE <<[url |-> Head(articles).url, title |-> Head(articles).title,
            short_content |-> Head(articles).short_content]>>
         \o NewsBody(Tail(articles))

\* The response list of get_news_summarized_route.
RECURSIVE SummarizedBody(_)
SummarizedBody(articles) ==
    IF articles = <<>> THEN <<>>
    ELSE <<[url |-> Head(articles).url, title |-> Head(articles).title,
            summary |-> Head(articles).long_content_summary]>>
         \o SummarizedBody(Tail(articles))

\* summarize_dict.get(ticker) is not None (no entry is ever None).
Cached(ticker) == ticker \in DOMAIN summarize_dict

\* summarize_dict.setdefault(ticker, response): the first entry is kept.
CacheStoreFirst(dict, ticker, response) ==
    [t \in DOMAIN dict \cup {ticker} |-> IF t \in DOMAIN dict THEN dict[t] ELSE response]

\* The assignment lost.
CacheStoreNothing(dict, ticker, response) == dict

\* summarize_dict[ticker] = response
CacheStore(dict, ticker, response) ==
    [t \in DOMAIN dict \cup {ticker} |-> IF t = ticker THEN response ELSE dict[t]]

\* if ticker is not None:
ProvidedNotNone(param) == param # None

\* if ticker: / if company_name:
Provided(param) == Truthy(param)

\* ---------------------------------------------------------------- inputs of the routes

\* request.args.get of a required parameter: None when it is missing.
TickerParams == {"AMZN", None, ""}

\* request.args.get('count').
CountParams == {None, "1", "abc"}

StatusCodes == {200, 500}

Scores == UNION {(t - ScoreDelta)..(t + ScoreDelta) : t \in Thresholds}

Feeds == {[raise |-> TRUE]} \cup {[score |-> k] : k \in Scores}

Matches == {[symbol |-> "AMZN", region |-> "United States"],
            [symbol |-> "AMZ.DEX", region |-> "XETRA"],
            [symbol |-> "AMZO34.SAO", region |-> "Brazil/Sao Paolo"]}

SeqsUpTo(S, n) == UNION {[1..k -> S] : k \in 0..n}

Searches == {[raise |-> TRUE]} \cup {[matches |-> m] : m \in SeqsUpTo(Matches, MaxMatches)}

\* ---------------------------------------------------------------- handlers

other(r) == CHOOSE o \in Reqs : o # r

\* The handler ends: its response is st, body.
Done(r, st, body) ==
    /\ pc' = [pc EXCEPT ![r] = "done"]
    /\ resp' = [resp EXCEPT ![r] = Response(st, body)]
    /\ alone' = [alone EXCEPT ![r] = pc[other(r)] # "listing"]

\* get_sentiment_route
SentimentRoute(r) ==
    /\ pc[r] = "idle"
    /\ \E ticker \in TickerParams, feed \in Feeds :
          /\ req' = [req EXCEPT ![r] = [route |-> "/sentiment", param |-> ticker, count |-> None]]
          /\ IF Provided(ticker)
             THEN Done(r, 200, [sentiment |-> get_sentiment(feed)])
             ELSE Done(r, 400, [error |-> "Ticker not provided"])
          /\ exc' = [exc EXCEPT ![r] = IF Provided(ticker) /\ feed = [raise |-> TRUE]
                                        THEN "get_sentiment" ELSE None]
    /\ UNCHANGED <<items, page, news, news_count, requested, dropped, llm, hit, prev, summarize_dict, writer>>

\* get_ticker_route
TickerRoute(r) ==
    /\ pc[r] = "idle"
    /\ \E company_name \in {None, "", "Amazon"}, search \in Searches :
          /\ req' = [req EXCEPT ![r] = [route |-> "/ticker", param |-> company_name, count |-> None]]
          /\ IF Provided(company_name)
             THEN LET ticker == get_ticker_symbol(search)
                  IN IF ticker = None
                     THEN Done(r, 400, [error |-> "Company name not found"])
                     ELSE Done(r, 200, [ticker |-> ticker])
             ELSE Done(r, 400, [error |-> "Company name not provided"])
          /\ exc' = [exc EXCEPT ![r] = IF Provided(company_name) /\ search = [raise |-> TRUE]
                                        THEN "get_ticker_symbol" ELSE None]
    /\ UNCHANGED <<items, page, news, news_count, requested, dropped, llm, hit, prev, summarize_dict, writer>>

\* get_daily_time_series
TimeseriesRoute(r) ==
    /\ pc[r] = "idle"
    /\ \E ticker \in TickerParams, raised \in BOOLEAN :
          /\ req' = [req EXCEPT ![r] = [route |-> "/timeseries/daily", param |-> ticker, count |-> None]]
          /\ IF Provided(ticker)
             THEN IF raised
                  THEN Done(r, 500, [error |-> "Time Series (Daily)"])
                  ELSE Done(r, 200, [timeseries |-> "AMZN"])
             ELSE Done(r, 400, [error |-> "Ticker not provided"])
          /\ exc' = [exc EXCEPT ![r] = IF Provided(ticker) /\ raised
                                        THEN "requests.get" ELSE None]
    /\ UNCHANGED <<items, page, news, news_count, requested, dropped, llm, hit, prev, summarize_dict, writer>>

\* The first lines of get_news_route and get_news_summarized_route after the
\* cache test: the parameters are checked and get_news_from_stocknews is entered.
EnterListing(r, ticker, count) ==
    IF ~Provided(ticker)
    THEN /\ Done(r, 400, [error |-> "Ticker not provided"])
         /\ exc' = exc
         /\ UNCHANGED <<items, page, news, news_count>>
    ELSE IF count # None /\ int(count).raised
    THEN /\ Done(r, 500, [error |-> "invalid literal for int() with base 10"])
         /\ exc' = [exc EXCEPT ![r] = "int"]
         /\ UNCHANGED <<items, page, news, news_count>>
    ELSE /\ pc' = [pc EXCEPT ![r] = "listing"]
         /\ items' = [items EXCEPT ![r] = IF count = None THEN DefaultItems ELSE int(count).val]
         /\ page' = [page EXCEPT ![r] = 1]
         /\ news' = [news EXCEPT ![r] = <<>>]
         /\ news_count' = [news_count EXCEPT ![r] = 0]
         /\ UNCHANGED <<resp, exc, alone>>

\* get_news_route up to the call of get_news_from_stocknews
NewsRoute(r, tickers, counts) ==
    /\ pc[r] = "idle"
    /\ \E ticker \in tickers, count \in counts :
          /\ req' = [req EXCEPT ![r] = [route |-> "/news", param |-> ticker, count |-> count]]
          /\ EnterListing(r, ticker, count)
    /\ UNCHANGED <<requested, dropped, llm, hit, prev, summarize_dict, writer>>

\* get_news_summarized_route up to the call of fetch_and_summarize_news
SummarizedRoute(r, tickers, counts) ==
    /\ pc[r] = "idle"
    /\ \E ticker \in tickers, count \in counts :
          /\ req' = [req EXCEPT ![r] = [route |-> "/news/summarized", param |-> ticker, count |-> count]]
          /\ prev' = [prev EXCEPT ![r] =
                        IF /\ pc[other(r)] = "done"
                           /\ req[other(r)].route = "/news/summarized"
                           /\ req[other(r)].param = ticker
                           /\ alone[other(r)]
                        THEN resp[other(r)] ELSE NoResponse]
          /\ IF Provided(ticker) /\ Cached(ticker)
             THEN /\ Done(r, 200, [news |-> summarize_dict[ticker]])
                  /\ hit' = [hit EXCEPT ![r] = TRUE]
                  /\ UNCHANGED <<items, page, news, news_count, exc>>
             ELSE /\ EnterListing(r, ticker, count)
                  /\ hit' = hit
    /\ UNCHANGED <<requested, dropped, llm, summarize_dict, writer>>

\* One iteration of the while loop of get_news_from_stocknews; an exception
\* of get_news_page_from_stocknews reaches the route's except clause.
NewsPage(r, pages) ==
    /\ pc[r] = "listing"
    /\ MoreNeeded(news_count[r], items[r])
    /\ page[r] <= MaxPage
    /\ \E status_code \in StatusCodes :
       \E data \in IF status_code = 200 THEN pages ELSE {<<>>} :
          LET batch == get_news_page_from_stocknews(status_code, data)
          IN /\ requested' = [requested EXCEPT ![r] =
                                 Append(@, [page |-> page[r], status_code |-> status_code])]
             /\ dropped' = [dropped EXCEPT ![r] =
                               IF status_code = 200 THEN @ \cup Skips(data) ELSE @]
             /\ IF batch.raised
                THEN /\ Done(r, 500, [error |-> "Error: 500"])
                     /\ exc' = [exc EXCEPT ![r] = "get_news_page_from_stocknews"]
                     /\ UNCHANGED <<news, news_count, page>>
                ELSE /\ news' = [news EXCEPT ![r] = @ \o batch.articles]
                     /\ news_count' = [news_count EXCEPT ![r] = CountAfter(@, batch.articles)]
                     /\ page' = [page EXCEPT ![r] = @ + 1]
                     /\ UNCHANGED <<pc, resp, exc, alone>>
    /\ UNCHANGED <<req, items, llm, hit, prev, summarize_dict, writer>>

\* get_news_from_stocknews returns and get_news_route answers.
NewsRespond(r) ==
    /\ pc[r] = "listing"
    /\ req[r].route = "/news"
    /\ ~MoreNeeded(news_count[r], items[r])
    /\ Done(r, 200, [news |-> NewsBody(news[r])])
    /\ UNCHANGED <<req, items, page, news, news_count, requested, dropped, llm, exc, hit, prev,
                   summarize_dict, writer>>

\* get_news_from_stocknews returns inside fetch_and_summarize_news, which
\* runs asyncio.run(summarize_news(news)); get_news_summarized_route then
\* builds the response, stores it in summarize_dict and answers, or answers
\* from its except clause.
SummarizedRespond(r) ==
    /\ pc[r] = "listing"
    /\ req[r].route = "/news/summarized"
    /\ ~MoreNeeded(news_count[r], items[r])
    /\ \E outs \in [1..Len(news[r]) -> LlmOutcomes] :
          LET batch == summarize_news(news[r], outs)
              response == SummarizedBody(batch.articles)
          IN /\ llm' = [llm EXCEPT ![r] = outs]
             /\ news' = [news EXCEPT ![r] = batch.articles]
             /\ IF batch.raised
                THEN /\ Done(r, 500, [error |-> "openai error"])
                     /\ exc' = [exc EXCEPT ![r] = "summarize_long_content"]
                     /\ UNCHANGED <<summarize_dict, writer>>
                ELSE /\ summarize_dict' = CacheStore(summarize_dict, req[r].param, response)
                     /\ writer' = [writer EXCEPT ![req[r].param] = r]
                     /\ Done(r, 200, [news |-> response])
                     /\ exc' = exc
    /\ UNCHANGED <<req, items, page, news_count, requested, dropped, hit, prev>>

\* The handler thread takes the next request.
Finish(r) ==
    /\ pc[r] = "done"
    /\ pc' = [pc EXCEPT ![r] = "idle"]
    /\ req' = [req EXCEPT ![r] = [route |-> None, param |-> None, count |-> None]]
    /\ items' = [items EXCEPT ![r] = 0]
    /\ page' = [page EXCEPT ![r] = 1]
    /\ news' = [news EXCEPT ![r] = <<>>]
    /\ news_count' = [news_count EXCEPT ![r] = 0]
    /\ requested' = [requested EXCEPT ![r] = <<>>]
    /\ dropped' = [dropped EXCEPT ![r] = {}]
    /\ llm' = [llm EXCEPT ![r] = <<>>]
    /\ exc' = [exc EXCEPT ![r] = None]
    /\ resp' = [resp EXCEPT ![r] = NoResponse]
    /\ hit' = [hit EXCEPT ![r] = FALSE]
    /\ alone' = [alone EXCEPT ![r] = FALSE]
    /\ prev' = [prev EXCEPT ![r] = NoResponse]
    /\ writer' = [t \in Tickers |-> IF writer[t] = r THEN None ELSE writer[t]]
    /\ UNCHANGED summarize_dict

\* ---------------------------------------------------------------- specifications

Init ==
    /\ pc = [r \in Reqs |-> "idle"]
    /\ req = [r \in Reqs |-> [route |-> None, param |-> None, count |-> None]]
    /\ items = [r \in Reqs |-> 0]
    /\ page = [r \in Reqs |-> 1]
    /\ news = [r \in Reqs |-> <<>>]
    /\ news_count = [r \in Reqs |-> 0]
    /\ requested = [r \in Reqs |-> <<>>]
    /\ dropped = [r \in Reqs |-> {}]
    /\ llm = [r \in Reqs |-> <<>>]
    /\ exc = [r \in Reqs |-> None]
    /\ resp = [r \in Reqs |-> NoResponse]
    /\ hit = [r \in Reqs |-> FALSE]
    /\ alone = [r \in Reqs |-> FALSE]
    /\ prev = [r \in Reqs |-> NoResponse]
    /\ summarize_dict = <<>>
    /\ writer = [t \in Tickers |-> None]

\* The provider's pages: up to the page size asked, items=3.
Pages == SeqsUpTo(PageItems, DefaultItems)

\* One handler thread, every route, every parameter, full provider pages.
Next ==
    \E r \in {"r1"} :
       \/ SentimentRoute(r)
       \/ TickerRoute(r)
       \/ TimeseriesRoute(r)
       \/ NewsRoute(r, TickerParams, CountParams)
       \/ SummarizedRoute(r, TickerParams, CountParams)
       \/ NewsPage(r, Pages)
       \/ NewsRespond(r)
       \/ SummarizedRespond(r)
       \/ Finish(r)

Spec == Init /\ [][Next]_vars

\* Two handler threads serving /news/summarized concurrently, the provider
\* answering an empty page or a page of one article.
RaceCounts == {"0", "1"}

RacePages == {<<>>, << <<Entry(NewsUrl), "<p>Shares rose</p>">> >>}

NextRace ==
    \E r \in Reqs :
       \/ SummarizedRoute(r, Tickers, RaceCounts)
       \/ NewsPage(r, RacePages)
       \/ SummarizedRespond(r)
       \/ Finish(r)

SpecRace == Init /\ [][NextRace]_vars

\* ---------------------------------------------------------------- properties

NewsRoutes == {"/news", "/news/summarized"}

\* get_news_from_stocknews returned to the handler r (the request was not
\* answered from the cache and went past the listing).
Returned(r) ==
    /\ pc[r] = "done"
    /\ req[r].route \in NewsRoutes
    /\ ~hit[r]
    /\ resp[r].status = 200 \/ exc[r] = "summarize_long_content"

Failing(r) == {i \in 1..Len(llm[r]) : llm[r][i] = "raise"}

\* C1: when exactly one summarization call of a batch raises, every other
\* article whose call returned a non-empty text holds that text as its
\* long_content_summary once the batch has ended, wherever the failing
\* article stands in the list.
C1_FanOutIsolation ==
    \A r \in Reqs :
       (/\ pc[r] = "done"
        /\ req[r].route = "/news/summarized"
        /\ Len(llm[r]) = Len(news[r])
        /\ Cardinality(Failing(r)) = 1)
       => \A i \in 1..Len(news[r]) :
             llm[r][i] \notin {"raise", ""} => news[r][i].long_content_summary = llm[r][i]

C1_Witness ==
    \E r \in Reqs :
       /\ pc[r] = "done"
       /\ Len(news[r]) >= 3
       /\ Failing(r) = {1}
       /\ \A i \in 2..Len(news[r]) : news[r][i].long_content_summary = "Summary"

\* C2: a failing summarization call does not abort the batch: the request is
\* answered 200 with the news list, the failing article's summary null.
C2_SoftFailure ==
    \A r \in Reqs :
       (pc[r] = "done" /\ req[r].route = "/news/summarized" /\ Failing(r) # {})
       => /\ resp[r].status = 200
          /\ "news" \in DOMAIN resp[r].body
          /\ \A i \in Failing(r) : resp[r].body.news[i].summary = None

\* C3 as stated: a /news/summarized call that follows a completed call for
\* the same ticker (no other request in flight between them) returns the
\* same body and makes no upstream call.
C3_CacheIdempotent ==
    \A r \in Reqs :
       (pc[r] = "done" /\ prev[r] # NoResponse)
       => resp[r] = prev[r] /\ requested[r] = <<>> /\ llm[r] = <<>>

\* C3 amended: a /news/summarized call that follows a call for the same
\* ticker answered 200 (no other request in flight between them) returns
\* the same body and makes no upstream listing, scrape or summarization
\* call, whatever the count parameters.
C3_CacheIdempotentAfterSuccess ==
    \A r \in Reqs :
       (pc[r] = "done" /\ prev[r].status = 200)
       => resp[r] = prev[r] /\ requested[r] = <<>> /\ llm[r] = <<>>

C3_Witness ==
    \E r \in Reqs :
       /\ pc[r] = "done" /\ pc[other(r)] = "done"
       /\ prev[r].status = 200
       /\ hit[r] /\ ~hit[other(r)]
       /\ req[r].count # req[other(r)].count
       /\ Len(resp[r].body.news) >= 1
       /\ resp[r] = resp[other(r)]

\* C4: get_news_from_stocknews returns at least min_items articles, and no
\* article it holds, on any page, has an absent or empty long_content.
C4_ListingEnough ==
    \A r \in Reqs :
       /\ \A i \in 1..Len(news[r]) : news[r][i].long_content \notin {None, ""}
       /\ Returned(r) => Len(news[r]) >= items[r]

C4_Witness ==
    \E r \in Reqs :
       /\ Returned(r)
       /\ req[r].route = "/news"
       /\ items[r] = DefaultItems
       /\ Len(requested[r]) >= 2
       /\ "scrape" \in dropped[r]
       /\ Len(news[r]) > items[r]

Missing(param) == param \in {None, ""}

ErrorBody(r) == DOMAIN resp[r].body = {"error"}

C6_ListingFailureFatal ==
    \A r \in Reqs :
       /\ \A i, j \in 1..Len(requested[r]) :
             i # j => requested[r][i].page # requested[r][j].page
       /\ \A i \in 1..Len(requested[r]) :
             requested[r][i].status_code # 200
             => /\ i = Len(requested[r])
                /\ pc[r] = "done"
                /\ resp[r].status = 500
                /\ ErrorBody(r)
                /\ \A t \in Tickers : writer[t] # r

C6_Witness ==
    \E r \in Reqs :
       /\ pc[r] = "done"
       /\ Len(requested[r]) >= 2
       /\ requested[r][Len(requested[r])].status_code # 200
       /\ Len(news[r]) >= 1
       /\ resp[r].status = 500

Labels == {"Bearish", "Somewhat-Bearish", "Neutral", "Somewhat-Bullish", "Bullish"}

\* C7: the label answered by /sentiment is the one the intervals of the
\* docstring give to the rounded score (in ten-thousandths), the boundary
\* values included.
C7_LabelThresholds ==
    \A r \in Reqs :
       (/\ pc[r] = "done"
        /\ req[r].route = "/sentiment"
        /\ resp[r].status = 200
        /\ resp[r].body.sentiment # NoSentiment)
       => LET x == resp[r].body.sentiment.score
              label == resp[r].body.sentiment.label
          IN /\ label \in Labels
             /\ x <= -3500 <=> label = "Bearish"
             /\ (-3500 < x /\ x <= -1500) <=> label = "Somewhat-Bearish"
             /\ (-1500 < x /\ x < 1500) <=> label = "Neutral"
             /\ (1500 <= x /\ x < 3500) <=> label = "Somewhat-Bullish"
             /\ x >= 3500 <=> label = "Bullish"

C7_Witness ==
    \E r \in Reqs :
       /\ pc[r] = "done"
       /\ req[r].route = "/sentiment"
       /\ resp[r].body = [sentiment |-> [score |-> -1500, label |-> "Somewhat-Bearish"]]

HasMarker(list) == \E i \in 1..Len(list) : Contains(list[i].url, "youtube")

\* C8: no article held by get_news_from_stocknews, no entry of a news
\* response and no entry of the cache has a url containing "youtube".
C8_NoDenylistedUrl ==
    /\ \A r \in Reqs :
          /\ ~HasMarker(news[r])
          /\ (pc[r] = "done" /\ "news" \in DOMAIN resp[r].body) => ~HasMarker(resp[r].body.news)
    /\ \A t \in DOMAIN summarize_dict : ~HasMarker(summarize_dict[t])

C8_Witness ==
    \E r \in Reqs :
       /\ pc[r] = "done"
       /\ req[r].route = "/news/summarized"
       /\ resp[r].status = 200
       /\ "denylist" \in dropped[r]
       /\ Len(resp[r].body.news) >= 1
       /\ Cached(req[r].param)

\* C9: the cache entry of a ticker is the whole response list of the handler
\* that stored last, and a handler that missed the cache answers the list
\* it computed itself and leaves the ticker cached.
C9_LastWriterWins ==
    /\ \A t \in Tickers :
          writer[t] # None
          => Cached(t) /\ summarize_dict[t] = resp[writer[t]].body.news
    /\ \A r \in Reqs :
          (pc[r] = "done" /\ ~hit[r] /\ resp[r].status = 200)
          => /\ resp[r].body.news = SummarizedBody(news[r])
             /\ Cached(req[r].param)

C9_Witness ==
    \E r \in Reqs :
       /\ pc[r] = "done" /\ pc[other(r)] = "done"
       /\ req[r].param = req[other(r)].param
       /\ ~hit[r] /\ ~hit[other(r)]
       /\ resp[r].status = 200 /\ resp[other(r)].status = 200
       /\ requested[r] # <<>> /\ requested[other(r)] # <<>>
       /\ llm[r] # <<>> /\ llm[other(r)] # <<>>
       /\ resp[r] # resp[other(r)]
       /\ writer[req[r].param] = r
       /\ summarize_dict[req[r].param] = resp[r].body.news

\* C10: the pages are requested in the order 1, 2, 3, ...; while fewer than
\* min_items articles survived, the call requests the next page and does not
\* return; it returns only with at least min_items articles.
C10_PagingUntilEnough ==
    \A r \in Reqs :
       /\ \A i \in 1..Len(requested[r]) : requested[r][i].page = i
       /\ pc[r] = "listing" => page[r] = Len(requested[r]) + 1
       /\ (pc[r] = "listing" /\ news_count[r] < items[r] /\ page[r] <= MaxPage)
          => /\ ENABLED NewsPage(r, Pages)
             /\ ~ENABLED NewsRespond(r)
             /\ ~ENABLED SummarizedRespond(r)
       /\ Returned(r) => news_count[r] >= items[r]

C10_Witness ==
    \E r \in Reqs :
       /\ pc[r] = "listing"
       /\ items[r] >= 1
       /\ Len(requested[r]) = MaxPage
       /\ \A i \in 1..Len(requested[r]) : requested[r][i].status_code = 200
       /\ dropped[r] = {"denylist", "scrape"}
       /\ news_count[r] = 0

====
